---- MODULE Spec2Model ----
(***************************************************************************)
(* Points ledger, stand-visit accrual, merch orders and candidate marks of *)
(* the conference bot (modules/points_system.py, modules/merch_module.py,  *)
(* modules/candidate_management.py, modules/admin_tools.py, main.py        *)
(* handle_photo) over the MongoDB collections of utils/db_connector.py.    *)
(*                                                                         *)
(* Every handler is a sequence of steps, one per store round trip: a step  *)
(* is one atomic MongoDB call together with the local computation that     *)
(* follows it.  Spec runs the calls one after the other (a call starts     *)
(* only when no call is in flight); ConcSpec lets the two workers          *)
(* interleave their steps freely; both cover the ledger, the stand scans  *)
(* and the orders.  CandSpec runs the candidate calls (mark, unmark, note) *)
(* and the scans one after the other, from any assignment of roles.        *)
(***************************************************************************)
EXTENDS Integers, Sequences, FiniteSets, TLC

\* ---------------------------------------------------------------- bounds
MaxTx == 4          \* longest points_transactions log explored
MaxOrders == 2      \* longest merch_transactions collection explored
MaxNotes == 2       \* largest candidate_notes collection explored
MaxCalls == 2       \* calls the two workers make between them when they interleave

\* ------------------------------------------------------ program constants
RegistrationBonus == 10      \* main.py registration_consent
DefaultPointsReward == 10    \* main.py handle_photo: stand.get('points_reward', 10)

\* --------------------------------------------------------- input domains
Procs == {"w1", "w2"}
UserIds == {1, 2, 3}            \* 1 guest, 2 standist, 3 never registered
Visitors == {1, 3}              \* the ids points calls and visitor QR codes name
Markers == {1, 2}               \* the ids candidate calls name as the marker
Roles == {"guest", "standist", "hr", "admin"}
StandIds == {1}
AnyStandIds == {1, 2}           \* stand ids a dedup query names; there is no stand 2
MerchIds == {1, 2}              \* merch 2 is not in the catalog
OrderIds == 1..(MaxOrders + 1)  \* order ids calls name, one of them never issued
Amounts == {0, 5, 10}
NoRef == <<"none", 0>>
QRs == {<<"user", u>> : u \in Visitors} \cup {<<"stand", s>> : s \in StandIds}

VARIABLES
    users,            \* db.users: user_id -> document (present = the document exists)
    stands,           \* db.stands: stand_id -> document
    merch,            \* db.merch: merch_id -> document
    points_transactions,   \* db.points_transactions, in insertion order; id = position
    merch_transactions,    \* db.merch_transactions, in insertion order; id = position
    candidate_notes,       \* db.candidate_notes (marks and notes), in insertion order
    pc,               \* worker -> the step it is at
    loc,              \* worker -> locals of the call in flight
    ret,              \* worker -> outcome of its last completed call
    pre,              \* worker -> the collections as they were when its call in flight started
    calls             \* calls started so far, counted up to MaxCalls

db == <<users, stands, merch, points_transactions, merch_transactions, candidate_notes>>
vars == <<users, stands, merch, points_transactions, merch_transactions, candidate_notes, pc, loc, ret, pre, calls>>

Snapshot == [users |-> users, stands |-> stands, merch |-> merch,
             points_transactions |-> points_transactions,
             merch_transactions |-> merch_transactions,
             candidate_notes |-> candidate_notes]

NoSnapshot == [users |-> << >>, stands |-> << >>, merch |-> << >>,
               points_transactions |-> << >>, merch_transactions |-> << >>,
               candidate_notes |-> << >>]

IdleLoc == [op |-> "none", actor |-> 0, user |-> 0, amount |-> 0, reason |-> "none",
            ref |-> NoRef, id |-> 0, ttype |-> "none", ok |-> FALSE, qr |-> "none",
            role |-> "none", out |-> "none", merch_id |-> 0, flagged |-> FALSE,
            wrote |-> FALSE]
NoRet == [op |-> "none", out |-> "none", ok |-> FALSE, actor |-> 0, user |-> 0,
          amount |-> 0, id |-> 0, wrote |-> FALSE]

\* ------------------------------------------------------------ the store
\* DBConnector.get_user: find_one({'user_id': user_id}); TRUE iff a document came back
get_user(us, user_id) == user_id \in DOMAIN us /\ us[user_id].present

\* update_user_points writing the amount with $set where the code uses $inc
update_user_points_set(us, user_id, points) ==
    IF get_user(us, user_id)
    THEN [ok |-> TRUE, users |-> [us EXCEPT ![user_id].points = points]]
    ELSE [ok |-> FALSE, users |-> us]

\* DBConnector.update_user_points: one update_one with $inc; last_activity is set
\* to the current time, so modified_count > 0 exactly when the filter matched
update_user_points(us, user_id, points) ==
    IF get_user(us, user_id)
    THEN [ok |-> TRUE, users |-> [us EXCEPT ![user_id].points = @ + points]]
    ELSE [ok |-> FALSE, users |-> us]

\* create_points_transaction writing over the newest document of the log
create_points_transaction_replace_last(log, transaction_data) ==
    LET doc == [user_id |-> transaction_data.user_id,
                amount |-> transaction_data.amount,
                type |-> transaction_data.type,
                reason |-> transaction_data.reason,
                reference_id |-> transaction_data.reference_id,
                status |-> "active"] IN
    IF log = << >> THEN <<doc>> ELSE [log EXCEPT ![Len(log)] = doc]

\* DBConnector.create_points_transaction: insert_one; the document carries no
\* status field until it is cancelled (modelled as status "active")
create_points_transaction(log, transaction_data) ==
    Append(log, [user_id |-> transaction_data.user_id,
                 amount |-> transaction_data.amount,
                 type |-> transaction_data.type,
                 reason |-> transaction_data.reason,
                 reference_id |-> transaction_data.reference_id,
                 status |-> "active"])

\* check_stand_visit comparing the count with 1 where the code compares with 0
check_stand_visit_above_one(log, user_id, stand_id) ==
    Cardinality({i \in DOMAIN log : /\ log[i].user_id = user_id
                                    /\ log[i].reason = "stand_visit"
                                    /\ log[i].reference_id = <<"stand", stand_id>>}) > 1

\* check_stand_visit counting the user's visits of any stand
check_stand_visit_any_stand(log, user_id, stand_id) ==
    Cardinality({i \in DOMAIN log : /\ log[i].user_id = user_id
                                    /\ log[i].reason = "stand_visit"}) > 0

\* check_stand_visit counting only the transactions that are not cancelled
check_stand_visit_active_only(log, user_id, stand_id) ==
    Cardinality({i \in DOMAIN log : /\ log[i].user_id = user_id
                                    /\ log[i].reason = "stand_visit"
                                    /\ log[i].reference_id = <<"stand", stand_id>>
                                    /\ log[i].status # "cancelled"}) > 0

\* PointsSystem.check_stand_visit: count_documents(...) > 0
check_stand_visit(log, user_id, stand_id) ==
    Cardinality({i \in DOMAIN log : /\ log[i].user_id = user_id
                                    /\ log[i].reason = "stand_visit"
                                    /\ log[i].reference_id = <<"stand", stand_id>>}) > 0

\* DBConnector.increment_stand_visits: update_one with $inc visits
increment_stand_visits(st, stand_id) ==
    IF stand_id \in DOMAIN st THEN [st EXCEPT ![stand_id].visits = @ + 1] ELSE st

\* DBConnector.get_stand_by_owner: find_one({'owner_id': owner_id}); 0 = no stand
get_stand_by_owner(st, owner_id) ==
    IF \E s \in DOMAIN st : st[s].owner_id = owner_id
    THEN CHOOSE s \in DOMAIN st : st[s].owner_id = owner_id
    ELSE 0

\* ------------------------------------------------------------ call frame
AllIdle == \A p \in Procs : pc[p] = "idle"
NumBusy == Cardinality({p \in Procs : pc[p] # "idle"})

Begin(p, label, frame) ==
    /\ pc[p] = "idle"
    /\ pc' = [pc EXCEPT ![p] = label]
    /\ loc' = [loc EXCEPT ![p] = frame]
    /\ pre' = [pre EXCEPT ![p] = Snapshot]
    /\ ret' = [ret EXCEPT ![p] = NoRet]
    /\ calls' = IF calls < MaxCalls THEN calls + 1 ELSE calls
    /\ UNCHANGED db

\* wrote records whether a step of the call so far has changed a collection
Goto(p, label, frame) ==
    /\ pc' = [pc EXCEPT ![p] = label]
    /\ loc' = [loc EXCEPT ![p] = [frame EXCEPT !.wrote = loc[p].wrote \/ db' # db]]
    /\ UNCHANGED <<ret, pre, calls>>

Return(p, out, ok) ==
    /\ pc' = [pc EXCEPT ![p] = "idle"]
    /\ ret' = [ret EXCEPT ![p] = [op |-> loc[p].op, out |-> out, ok |-> ok,
                                  actor |-> loc[p].actor, user |-> loc[p].user,
                                  amount |-> loc[p].amount, id |-> loc[p].id,
                                  wrote |-> loc[p].wrote \/ db' # db]]
    /\ loc' = [loc EXCEPT ![p] = IdleLoc]
    /\ pre' = [pre EXCEPT ![p] = NoSnapshot]
    /\ UNCHANGED calls

\* ---------------------------------------------------- PointsSystem.add_points
\* what add_points hands back: to its caller in handle_photo, or to the environment
add_points_return(p, ok) ==
    IF loc[p].op = "handle_photo"
    THEN Goto(p, "hp_added", [loc[p] EXCEPT !.ok = ok])
    ELSE Return(p, IF ok THEN "ok" ELSE "failed", ok)

call_add_points(p, user_id, amount) ==
    /\ Len(points_transactions) + NumBusy < MaxTx
    /\ Begin(p, "ap_update", [IdleLoc EXCEPT !.op = "add_points", !.user = user_id,
                              !.amount = amount, !.reason = "other"])

\* add_points going on to the log entry whatever update_user_points said
add_points_update_ignore_result(p) ==
    /\ pc[p] = "ap_update"
    /\ IF loc[p].amount <= 0
       THEN UNCHANGED db /\ add_points_return(p, FALSE)
       ELSE LET r == update_user_points(users, loc[p].user, loc[p].amount) IN
            /\ users' = r.users
            /\ UNCHANGED <<stands, merch, points_transactions, merch_transactions, candidate_notes>>
            /\ Goto(p, "ap_log", loc[p])

\* add_points going on to the log entry without the balance update
add_points_update_deferred(p) ==
    /\ pc[p] = "ap_update"
    /\ UNCHANGED db
    /\ IF loc[p].amount <= 0
       THEN add_points_return(p, FALSE)
       ELSE Goto(p, "ap_log", loc[p])

\* lines 38-43: amount check, then update_user_points
add_points_update(p) ==
    /\ pc[p] = "ap_update"
    /\ IF loc[p].amount <= 0
       THEN UNCHANGED db /\ add_points_return(p, FALSE)
       ELSE LET r == update_user_points(users, loc[p].user, loc[p].amount) IN
            /\ users' = r.users
            /\ UNCHANGED <<stands, merch, points_transactions, merch_transactions, candidate_notes>>
            /\ IF r.ok THEN Goto(p, "ap_log", loc[p]) ELSE add_points_return(p, FALSE)

\* lines 45-56: create_points_transaction, return True
add_points_log(p) ==
    /\ pc[p] = "ap_log"
    /\ points_transactions' = create_points_transaction(points_transactions,
           [user_id |-> loc[p].user, amount |-> loc[p].amount, type |-> "earn",
            reason |-> loc[p].reason, reference_id |-> loc[p].ref])
    /\ UNCHANGED <<users, stands, merch, merch_transactions, candidate_notes>>
    /\ add_points_return(p, TRUE)

\* ---------------------------------------------- PointsSystem.check_stand_visit
call_check_stand_visit(p, user_id, stand_id) ==
    Begin(p, "cv_count", [IdleLoc EXCEPT !.op = "check_stand_visit", !.user = user_id,
                          !.id = stand_id])

\* lines 96-103: the count, compared with 0
check_stand_visit_count(p) ==
    /\ pc[p] = "cv_count"
    /\ UNCHANGED db
    /\ LET visited == check_stand_visit(points_transactions, loc[p].user, loc[p].id) IN
       Return(p, IF visited THEN "visited" ELSE "not_visited", visited)

\* ----------------------------------------------- PointsSystem.subtract_points
call_subtract_points(p, user_id, amount) ==
    /\ Len(points_transactions) + NumBusy < MaxTx
    /\ Begin(p, "sp_read", [IdleLoc EXCEPT !.op = "subtract_points", !.user = user_id,
                            !.amount = amount, !.reason = "other"])

\* subtract_points rejecting only the amounts below 0
subtract_points_read_zero_allowed(p) ==
    /\ pc[p] = "sp_read"
    /\ UNCHANGED db
    /\ IF loc[p].amount < 0
       THEN Return(p, "failed", FALSE)
       ELSE IF ~get_user(users, loc[p].user) \/ users[loc[p].user].points < loc[p].amount
            THEN Return(p, "failed", FALSE)
            ELSE Goto(p, "sp_update", loc[p])

\* lines 60-66: amount check, get_user, balance check
subtract_points_read(p) ==
    /\ pc[p] = "sp_read"
    /\ UNCHANGED db
    /\ IF loc[p].amount <= 0
       THEN Return(p, "failed", FALSE)
       ELSE IF ~get_user(users, loc[p].user) \/ users[loc[p].user].points < loc[p].amount
            THEN Return(p, "failed", FALSE)
            ELSE Goto(p, "sp_update", loc[p])

\* subtract_points adding the amount where the code takes it off
subtract_points_update_unsigned(p) ==
    /\ pc[p] = "sp_update"
    /\ LET r == update_user_points(users, loc[p].user, loc[p].amount) IN
       /\ users' = r.users
       /\ UNCHANGED <<stands, merch, points_transactions, merch_transactions, candidate_notes>>
       /\ IF r.ok THEN Goto(p, "sp_log", loc[p]) ELSE Return(p, "failed", FALSE)

\* lines 68-70: update_user_points(user_id, -amount)
subtract_points_update(p) ==
    /\ pc[p] = "sp_update"
    /\ LET r == update_user_points(users, loc[p].user, -loc[p].amount) IN
       /\ users' = r.users
       /\ UNCHANGED <<stands, merch, points_transactions, merch_transactions, candidate_notes>>
       /\ IF r.ok THEN Goto(p, "sp_log", loc[p]) ELSE Return(p, "failed", FALSE)

\* lines 72-83: create_points_transaction, return True
subtract_points_log(p) ==
    /\ pc[p] = "sp_log"
    /\ points_transactions' = create_points_transaction(points_transactions,
           [user_id |-> loc[p].user, amount |-> loc[p].amount, type |-> "spend",
            reason |-> loc[p].reason, reference_id |-> loc[p].ref])
    /\ UNCHANGED <<users, stands, merch, merch_transactions, candidate_notes>>
    /\ Return(p, "ok", TRUE)

\* ------------------------------------ AdminTools.subtract_points_from_user
call_subtract_points_from_user(p, user_id, points) ==
    /\ Len(points_transactions) + NumBusy < MaxTx
    /\ Begin(p, "as_read", [IdleLoc EXCEPT !.op = "subtract_points_from_user",
                            !.user = user_id, !.amount = points,
                            !.reason = "admin_adjustment"])

\* admin_tools.py lines 135-141: amount check, get_user, balance check
subtract_points_from_user_read(p) ==
    /\ pc[p] = "as_read"
    /\ UNCHANGED db
    /\ IF loc[p].amount <= 0
       THEN Return(p, "failed", FALSE)
       ELSE IF ~get_user(users, loc[p].user) \/ users[loc[p].user].points < loc[p].amount
            THEN Return(p, "failed", FALSE)
            ELSE Goto(p, "as_update", loc[p])

\* admin_tools.py lines 143-145: update_user_points(user_id, -points)
subtract_points_from_user_update(p) ==
    /\ pc[p] = "as_update"
    /\ LET r == update_user_points(users, loc[p].user, -loc[p].amount) IN
       /\ users' = r.users
       /\ UNCHANGED <<stands, merch, points_transactions, merch_transactions, candidate_notes>>
       /\ IF r.ok THEN Goto(p, "as_log", loc[p]) ELSE Return(p, "failed", FALSE)

\* admin_tools.py lines 147-157: create_points_transaction, return True
subtract_points_from_user_log(p) ==
    /\ pc[p] = "as_log"
    /\ points_transactions' = create_points_transaction(points_transactions,
           [user_id |-> loc[p].user, amount |-> loc[p].amount, type |-> "spend",
            reason |-> loc[p].reason, reference_id |-> NoRef])
    /\ UNCHANGED <<users, stands, merch, merch_transactions, candidate_notes>>
    /\ Return(p, "ok", TRUE)

\* --------------------------------------------- PointsSystem.cancel_transaction
\* DBConnector.get_points_transaction is called by cancel_transaction and mocked
\* by its tests but not defined in utils/db_connector.py: lookup by transaction id
get_points_transaction(log, transaction_id) == transaction_id \in DOMAIN log

\* DBConnector.update_points_transaction_status: likewise called and mocked only;
\* sets the status of the transaction with that id, as its sibling
\* update_merch_transaction_status does for orders
update_points_transaction_status(log, transaction_id, status) ==
    IF transaction_id \in DOMAIN log
    THEN [ok |-> TRUE, log |-> [log EXCEPT ![transaction_id].status = status]]
    ELSE [ok |-> FALSE, log |-> log]

\* a cancellation is explored while the log has room for its compensating
\* entry; a cancellation of an already cancelled transaction gets one more
call_cancel_transaction(p, transaction_id) ==
    /\ \/ Len(points_transactions) + NumBusy < MaxTx
       \/ /\ Len(points_transactions) + NumBusy = MaxTx
          /\ transaction_id \in DOMAIN points_transactions
          /\ points_transactions[transaction_id].status = "cancelled"
    /\ Begin(p, "ct_get", [IdleLoc EXCEPT !.op = "cancel_transaction",
                           !.id = transaction_id, !.ref = <<"tx", transaction_id>>])

\* lines 108-118: look the transaction up, read user_id, amount, type
cancel_transaction_get(p) ==
    /\ pc[p] = "ct_get"
    /\ UNCHANGED db
    /\ IF ~get_points_transaction(points_transactions, loc[p].id)
       THEN Return(p, "unknown", FALSE)
       ELSE LET transaction == points_transactions[loc[p].id] IN
            Goto(p, IF transaction.type = "earn" THEN "ct_user" ELSE "ct_update",
                 [loc[p] EXCEPT !.user = transaction.user_id,
                                !.amount = transaction.amount,
                                !.ttype = transaction.type,
                                !.reason = "cancel_" \o transaction.reason])

\* cancel_transaction taking the amount off before it looks at the balance
cancel_transaction_user_debit_first(p) ==
    /\ pc[p] = "ct_user"
    /\ users' = update_user_points(users, loc[p].user, -loc[p].amount).users
    /\ UNCHANGED <<stands, merch, points_transactions, merch_transactions, candidate_notes>>
    /\ IF ~get_user(users, loc[p].user) \/ users[loc[p].user].points < loc[p].amount
       THEN Return(p, "cannot_reverse", FALSE)
       ELSE Goto(p, "ct_log", loc[p])

\* lines 121-124: cancelling an earn needs the user to hold the amount
cancel_transaction_user(p) ==
    /\ pc[p] = "ct_user"
    /\ UNCHANGED db
    /\ IF ~get_user(users, loc[p].user) \/ users[loc[p].user].points < loc[p].amount
       THEN Return(p, "cannot_reverse", FALSE)
       ELSE Goto(p, "ct_update", loc[p])

\* cancel_transaction adding the amount back whatever the type of the original
cancel_transaction_update_unsigned(p) ==
    /\ pc[p] = "ct_update"
    /\ LET r == update_user_points(users, loc[p].user, loc[p].amount) IN
       /\ users' = r.users
       /\ UNCHANGED <<stands, merch, points_transactions, merch_transactions, candidate_notes>>
       /\ IF r.ok THEN Goto(p, "ct_log", loc[p]) ELSE Return(p, "failed", FALSE)

\* lines 118, 127-128: update_user_points(user_id, points_adjustment)
cancel_transaction_update(p) ==
    /\ pc[p] = "ct_update"
    /\ LET points_adjustment == IF loc[p].ttype = "earn" THEN -loc[p].amount
                                                         ELSE loc[p].amount
           r == update_user_points(users, loc[p].user, points_adjustment) IN
       /\ users' = r.users
       /\ UNCHANGED <<stands, merch, points_transactions, merch_transactions, candidate_notes>>
       /\ IF r.ok THEN Goto(p, "ct_log", loc[p]) ELSE Return(p, "failed", FALSE)

\* cancel_transaction logging the compensation with the type of the original
cancel_transaction_log_same_type(p) ==
    /\ pc[p] = "ct_log"
    /\ points_transactions' = create_points_transaction(points_transactions,
           [user_id |-> loc[p].user, amount |-> loc[p].amount, type |-> loc[p].ttype,
            reason |-> loc[p].reason, reference_id |-> loc[p].ref])
    /\ UNCHANGED <<users, stands, merch, merch_transactions, candidate_notes>>
    /\ Goto(p, "ct_status", loc[p])

\* cancel_transaction keeping the type and negating the amount
cancel_transaction_log_negated(p) ==
    /\ pc[p] = "ct_log"
    /\ points_transactions' = create_points_transaction(points_transactions,
           [user_id |-> loc[p].user, amount |-> -loc[p].amount,
            type |-> loc[p].ttype,
            reason |-> loc[p].reason, reference_id |-> loc[p].ref])
    /\ UNCHANGED <<users, stands, merch, merch_transactions, candidate_notes>>
    /\ Goto(p, "ct_status", loc[p])

\* lines 131-141: the compensating transaction
cancel_transaction_log(p) ==
    /\ pc[p] = "ct_log"
    /\ points_transactions' = create_points_transaction(points_transactions,
           [user_id |-> loc[p].user, amount |-> loc[p].amount,
            type |-> IF loc[p].ttype = "earn" THEN "spend" ELSE "earn",
            reason |-> loc[p].reason, reference_id |-> loc[p].ref])
    /\ UNCHANGED <<users, stands, merch, merch_transactions, candidate_notes>>
    /\ Goto(p, "ct_status", loc[p])

\* line 144: return update_points_transaction_status(transaction_id, 'cancelled')
cancel_transaction_status(p) ==
    /\ pc[p] = "ct_status"
    /\ LET r == update_points_transaction_status(points_transactions, loc[p].id, "cancelled") IN
       /\ points_transactions' = r.log
       /\ UNCHANGED <<users, stands, merch, merch_transactions, candidate_notes>>
       /\ Return(p, IF r.ok THEN "ok" ELSE "failed", r.ok)

\* ------------------------------------------ CandidateManager.mark_as_candidate
\* DBConnector.mark_user_as_candidate: update_one with $set is_candidate
mark_user_as_candidate(us, user_id, is_candidate) ==
    IF get_user(us, user_id) THEN [us EXCEPT ![user_id].is_candidate = is_candidate] ELSE us

\* candidate_notes.find_one({'candidate_id', 'hr_id', 'is_marked': True})
find_mark(notes, candidate_id, hr_id) ==
    \E i \in DOMAIN notes : /\ notes[i].candidate_id = candidate_id
                            /\ notes[i].hr_id = hr_id
                            /\ notes[i].is_marked

\* candidate_notes.find_one({'candidate_id', 'is_marked': True}): a mark by anyone
find_any_mark(notes, candidate_id) ==
    \E i \in DOMAIN notes : notes[i].candidate_id = candidate_id /\ notes[i].is_marked

\* delete_one replaced by a delete of every mark on the candidate
delete_mark_all_markers(notes, candidate_id, hr_id) ==
    SelectSeq(notes, LAMBDA n : ~(n.candidate_id = candidate_id /\ n.is_marked))

\* delete_one without the is_marked filter: the first document of the marker
\* about the candidate goes, mark or note
delete_mark_any_record(notes, candidate_id, hr_id) ==
    IF \E i \in DOMAIN notes : notes[i].candidate_id = candidate_id /\ notes[i].hr_id = hr_id
    THEN LET match(i) == notes[i].candidate_id = candidate_id /\ notes[i].hr_id = hr_id
             k == CHOOSE i \in DOMAIN notes : match(i) /\ \A j \in 1..(i - 1) : ~match(j)
         IN SubSeq(notes, 1, k - 1) \o SubSeq(notes, k + 1, Len(notes))
    ELSE notes

\* candidate_notes.delete_one({'candidate_id', 'hr_id', 'is_marked': True}):
\* the first matching document goes, if there is one
delete_mark(notes, candidate_id, hr_id) ==
    IF find_mark(notes, candidate_id, hr_id)
    THEN LET match(i) == /\ notes[i].candidate_id = candidate_id
                         /\ notes[i].hr_id = hr_id
                         /\ notes[i].is_marked
             k == CHOOSE i \in DOMAIN notes : match(i) /\ \A j \in 1..(i - 1) : ~match(j)
         IN SubSeq(notes, 1, k - 1) \o SubSeq(notes, k + 1, Len(notes))
    ELSE notes

\* DBConnector.create_candidate_note: insert_one; a note carries no is_marked field
create_candidate_note(notes, note_data) ==
    Append(notes, [candidate_id |-> note_data.candidate_id, hr_id |-> note_data.hr_id,
                   is_marked |-> FALSE, text |-> TRUE])

\* what mark_as_candidate hands back: to handle_photo, whose standist branch
\* reports the accrual outcome it already has and whose hr branch reports the
\* outcome of the mark; to add_note, which returns True whatever it was; or to
\* the environment
mark_as_candidate_return(p, ok) ==
    IF loc[p].op = "handle_photo"
    THEN IF loc[p].role = "standist"
         THEN Return(p, loc[p].out, loc[p].out = "credited")
         ELSE Return(p, IF ok THEN "marked" ELSE "mark_failed", ok)
    ELSE IF loc[p].op = "add_note"
    THEN Return(p, "ok", TRUE)
    ELSE Return(p, IF ok THEN "ok" ELSE "failed", ok)

call_mark_as_candidate(p, user_id, hr_id) ==
    /\ Len(candidate_notes) + NumBusy < MaxNotes
    /\ Begin(p, "mc_get", [IdleLoc EXCEPT !.op = "mark_as_candidate", !.user = user_id,
                           !.actor = hr_id])

\* lines 24-26: get_user
mark_as_candidate_get(p) ==
    /\ pc[p] = "mc_get"
    /\ UNCHANGED db
    /\ IF ~get_user(users, loc[p].user)
       THEN mark_as_candidate_return(p, FALSE)
       ELSE Goto(p, "mc_flag", loc[p])

\* line 29: mark_user_as_candidate(user_id, True)
mark_as_candidate_flag(p) ==
    /\ pc[p] = "mc_flag"
    /\ users' = mark_user_as_candidate(users, loc[p].user, TRUE)
    /\ UNCHANGED <<stands, merch, points_transactions, merch_transactions, candidate_notes>>
    /\ Goto(p, "mc_find", loc[p])

\* mark_as_candidate inserting a mark without looking for an existing one
mark_as_candidate_find_always_insert(p) ==
    /\ pc[p] = "mc_find"
    /\ UNCHANGED db
    /\ Goto(p, "mc_insert", loc[p])

\* lines 32-38: is there already a mark by this marker
mark_as_candidate_find(p) ==
    /\ pc[p] = "mc_find"
    /\ UNCHANGED db
    /\ IF find_mark(candidate_notes, loc[p].user, loc[p].actor)
       THEN mark_as_candidate_return(p, TRUE)
       ELSE Goto(p, "mc_insert", loc[p])

\* lines 39-47: insert the mark, return True
mark_as_candidate_insert(p) ==
    /\ pc[p] = "mc_insert"
    /\ candidate_notes' = Append(candidate_notes,
           [candidate_id |-> loc[p].user, hr_id |-> loc[p].actor,
            is_marked |-> TRUE, text |-> FALSE])
    /\ UNCHANGED <<users, stands, merch, points_transactions, merch_transactions>>
    /\ mark_as_candidate_return(p, TRUE)

\* ---------------------------------------- CandidateManager.unmark_as_candidate
call_unmark_as_candidate(p, user_id, hr_id) ==
    Begin(p, "um_get", [IdleLoc EXCEPT !.op = "unmark_as_candidate", !.user = user_id,
                        !.actor = hr_id])

\* lines 52-54: get_user
unmark_as_candidate_get(p) ==
    /\ pc[p] = "um_get"
    /\ UNCHANGED db
    /\ IF ~get_user(users, loc[p].user)
       THEN Return(p, "failed", FALSE)
       ELSE Goto(p, "um_delete", loc[p])

\* lines 57-61: delete_one of this marker's mark
unmark_as_candidate_delete(p) ==
    /\ pc[p] = "um_delete"
    /\ candidate_notes' = delete_mark(candidate_notes, loc[p].user, loc[p].actor)
    /\ UNCHANGED <<users, stands, merch, points_transactions, merch_transactions>>
    /\ Goto(p, "um_find", loc[p])

\* unmark_as_candidate clearing the flag without looking for other marks
unmark_as_candidate_find_always_clear(p) ==
    /\ pc[p] = "um_find"
    /\ UNCHANGED db
    /\ Goto(p, "um_flag", loc[p])

\* lines 64-70: is a mark by anyone left
unmark_as_candidate_find(p) ==
    /\ pc[p] = "um_find"
    /\ UNCHANGED db
    /\ IF find_any_mark(candidate_notes, loc[p].user)
       THEN Return(p, "ok", TRUE)
       ELSE Goto(p, "um_flag", loc[p])

\* lines 71-73: mark_user_as_candidate(user_id, False), return True
unmark_as_candidate_flag(p) ==
    /\ pc[p] = "um_flag"
    /\ users' = mark_user_as_candidate(users, loc[p].user, FALSE)
    /\ UNCHANGED <<stands, merch, points_transactions, merch_transactions, candidate_notes>>
    /\ Return(p, "ok", TRUE)

\* --------------------------------------------------- CandidateManager.add_note
call_add_note(p, candidate_id, hr_id) ==
    /\ LET marks == IF get_user(users, candidate_id) /\ users[candidate_id].is_candidate
                    THEN 0 ELSE 1 IN
       Len(candidate_notes) + NumBusy + marks < MaxNotes
    /\ Begin(p, "an_get", [IdleLoc EXCEPT !.op = "add_note", !.user = candidate_id,
                           !.actor = hr_id])

\* add_note going on without the lookup of the candidate
add_note_get_no_lookup(p) ==
    /\ pc[p] = "an_get"
    /\ UNCHANGED db
    /\ Goto(p, "an_insert", [loc[p] EXCEPT !.flagged = users[loc[p].user].is_candidate])

\* lines 78-80: get_user; the document read here is the one line 94 looks at
add_note_get(p) ==
    /\ pc[p] = "an_get"
    /\ UNCHANGED db
    /\ IF ~get_user(users, loc[p].user)
       THEN Return(p, "failed", FALSE)
       ELSE Goto(p, "an_insert", [loc[p] EXCEPT !.flagged = users[loc[p].user].is_candidate])

\* add_note storing the note and never calling mark_as_candidate
add_note_insert_no_mark(p) ==
    /\ pc[p] = "an_insert"
    /\ candidate_notes' = create_candidate_note(candidate_notes,
           [candidate_id |-> loc[p].user, hr_id |-> loc[p].actor])
    /\ UNCHANGED <<users, stands, merch, points_transactions, merch_transactions>>
    /\ Return(p, "ok", TRUE)

\* lines 83-97: create_candidate_note, then mark_as_candidate when the document
\* read at line 78 was not flagged
add_note_insert(p) ==
    /\ pc[p] = "an_insert"
    /\ candidate_notes' = create_candidate_note(candidate_notes,
           [candidate_id |-> loc[p].user, hr_id |-> loc[p].actor])
    /\ UNCHANGED <<users, stands, merch, points_transactions, merch_transactions>>
    /\ IF loc[p].flagged THEN Return(p, "ok", TRUE) ELSE Goto(p, "mc_get", loc[p])

\* ------------------------------------------------- ConferenceBot.handle_photo
\* qr is the decoded payload: <<"user", n>> for the digits of a user id,
\* <<"stand", s>> for "stand:<s>".  A scan is explored while the log has room
\* for its credit, or when the visitor has been credited at every stand.
call_handle_photo(p, actor, qr) ==
    /\ \/ Len(points_transactions) + NumBusy < MaxTx
       \/ /\ qr[1] = "user"
          /\ \A s \in StandIds : check_stand_visit(points_transactions, qr[2], s)
    /\ Len(candidate_notes) + NumBusy < MaxNotes
    /\ Begin(p, "hp_actor", [IdleLoc EXCEPT !.op = "handle_photo", !.actor = actor,
                             !.qr = qr[1],
                             !.user = IF qr[1] = "user" THEN qr[2] ELSE 0,
                             !.id = IF qr[1] = "stand" THEN qr[2] ELSE 0])

\* handle_photo without the is_blocked check
handle_photo_actor_no_block_check(p) ==
    /\ pc[p] = "hp_actor"
    /\ UNCHANGED db
    /\ IF ~get_user(users, loc[p].actor)
       THEN Return(p, "unregistered", FALSE)
       ELSE LET role == users[loc[p].actor].role IN
            IF role \in {"standist", "hr"}
            THEN IF loc[p].qr = "user"
                 THEN Goto(p, "hp_scanned", [loc[p] EXCEPT !.role = role])
                 ELSE Return(p, "invalid_qr", FALSE)
            ELSE IF loc[p].qr = "stand"
                 THEN Goto(p, "hp_info", [loc[p] EXCEPT !.role = role])
                 ELSE Return(p, "unknown_qr", FALSE)

\* lines 516-533, 564-567, 638-641, 678-680: the actor's document, then the
\* dispatch on its role; int(qr_data) raises ValueError on a payload that is
\* not a number
handle_photo_actor(p) ==
    /\ pc[p] = "hp_actor"
    /\ UNCHANGED db
    /\ IF ~get_user(users, loc[p].actor)
       THEN Return(p, "unregistered", FALSE)
       ELSE IF users[loc[p].actor].is_blocked
       THEN Return(p, "blocked", FALSE)
       ELSE LET role == users[loc[p].actor].role IN
            IF role \in {"standist", "hr"}
            THEN IF loc[p].qr = "user"
                 THEN Goto(p, "hp_scanned", [loc[p] EXCEPT !.role = role])
                 ELSE Return(p, "invalid_qr", FALSE)
            ELSE IF loc[p].qr = "stand"
                 THEN Goto(p, "hp_info", [loc[p] EXCEPT !.role = role])
                 ELSE Return(p, "unknown_qr", FALSE)

\* lines 680-695: a guest scanning a stand code is shown the stand, nothing else
handle_photo_info(p) ==
    /\ pc[p] = "hp_info"
    /\ UNCHANGED db
    /\ Return(p, IF loc[p].id \in DOMAIN stands THEN "stand_info" ELSE "stand_missing", FALSE)

\* lines 568-574 and 642-651: the scanned visitor's document
handle_photo_scanned(p) ==
    /\ pc[p] = "hp_scanned"
    /\ UNCHANGED db
    /\ IF ~get_user(users, loc[p].user)
       THEN Return(p, "visitor_not_found", FALSE)
       ELSE Goto(p, IF loc[p].role = "standist" THEN "hp_stand" ELSE "mc_get", loc[p])

\* handle_photo crediting at the first stand when the standist owns none
handle_photo_stand_default_first(p) ==
    /\ pc[p] = "hp_stand"
    /\ UNCHANGED db
    /\ LET owned == get_stand_by_owner(stands, loc[p].actor)
           stand_id == IF owned = 0 THEN CHOOSE s \in DOMAIN stands : TRUE ELSE owned IN
       Goto(p, "hp_check", [loc[p] EXCEPT !.id = stand_id,
                                          !.amount = stands[stand_id].points_reward])

\* lines 577-585, 596: the standist's stand and its reward
handle_photo_stand(p) ==
    /\ pc[p] = "hp_stand"
    /\ UNCHANGED db
    /\ LET stand_id == get_stand_by_owner(stands, loc[p].actor) IN
       IF stand_id = 0
       THEN Return(p, "stand_not_found", FALSE)
       ELSE Goto(p, "hp_check", [loc[p] EXCEPT !.id = stand_id,
                                               !.amount = stands[stand_id].points_reward])

\* handle_photo counting the visit of a visitor it has already credited
handle_photo_check_count_repeat(p) ==
    /\ pc[p] = "hp_check"
    /\ IF check_stand_visit(points_transactions, loc[p].user, loc[p].id)
       THEN /\ stands' = increment_stand_visits(stands, loc[p].id)
            /\ UNCHANGED <<users, merch, points_transactions, merch_transactions, candidate_notes>>
            /\ Return(p, "already_visited", FALSE)
       ELSE /\ UNCHANGED db
            /\ Goto(p, "ap_update", [loc[p] EXCEPT !.reason = "stand_visit",
                                                   !.ref = <<"stand", loc[p].id>>])

\* lines 588-597: the dedup check, then the call of add_points
handle_photo_check(p) ==
    /\ pc[p] = "hp_check"
    /\ UNCHANGED db
    /\ IF check_stand_visit(points_transactions, loc[p].user, loc[p].id)
       THEN Return(p, "already_visited", FALSE)
       ELSE Goto(p, "ap_update", [loc[p] EXCEPT !.reason = "stand_visit",
                                                !.ref = <<"stand", loc[p].id>>])

\* lines 597-611: increment_stand_visits when add_points said True; the mark
\* of the visitor by the standist follows either way
handle_photo_added(p) ==
    /\ pc[p] = "hp_added"
    /\ IF loc[p].ok
       THEN /\ stands' = increment_stand_visits(stands, loc[p].id)
            /\ UNCHANGED <<users, merch, points_transactions, merch_transactions, candidate_notes>>
            /\ Goto(p, "mc_get", [loc[p] EXCEPT !.out = "credited"])
       ELSE /\ UNCHANGED db
            /\ Goto(p, "mc_get", [loc[p] EXCEPT !.out = "credit_failed"])

\* ---------------------------------------------------------------- the catalog
\* DBConnector.get_merch: find_one({'merch_id': merch_id})
get_merch(mc, merch_id) == merch_id \in DOMAIN mc /\ mc[merch_id].present

\* decrement_merch_quantity without the quantity_left > 0 filter
decrement_merch_quantity_unfiltered(mc, merch_id) ==
    IF get_merch(mc, merch_id)
    THEN [ok |-> TRUE, merch |-> [mc EXCEPT ![merch_id].quantity_left = @ - 1]]
    ELSE [ok |-> FALSE, merch |-> mc]

\* DBConnector.decrement_merch_quantity: one update_one whose filter holds
\* quantity_left > 0
decrement_merch_quantity(mc, merch_id) ==
    IF get_merch(mc, merch_id) /\ mc[merch_id].quantity_left > 0
    THEN [ok |-> TRUE, merch |-> [mc EXCEPT ![merch_id].quantity_left = @ - 1]]
    ELSE [ok |-> FALSE, merch |-> mc]

\* DBConnector.create_merch_transaction: insert_one
create_merch_transaction(orders, transaction_data) == Append(orders, transaction_data)

\* DBConnector.update_merch_transaction_status: update_one by transaction_id;
\* updated_at is set to the current time, so modified_count > 0 exactly when
\* the order exists
update_merch_transaction_status(orders, transaction_id, status) ==
    IF transaction_id \in DOMAIN orders
    THEN [ok |-> TRUE, orders |-> [orders EXCEPT ![transaction_id].status = status]]
    ELSE [ok |-> FALSE, orders |-> orders]

\* ---------------------------------------------------- MerchManager.create_order
call_create_order(p, user_id, merch_id) ==
    /\ Len(merch_transactions) + NumBusy < MaxOrders
    /\ Begin(p, "co_merch", [IdleLoc EXCEPT !.op = "create_order", !.user = user_id,
                             !.id = merch_id, !.merch_id = merch_id])

\* lines 58-60: get_merch, quantity_left check
create_order_merch(p) ==
    /\ pc[p] = "co_merch"
    /\ UNCHANGED db
    /\ IF ~get_merch(merch, loc[p].merch_id) \/ merch[loc[p].merch_id].quantity_left <= 0
       THEN Return(p, "unavailable", FALSE)
       ELSE Goto(p, "co_user", [loc[p] EXCEPT !.amount = merch[loc[p].merch_id].points_cost])

\* create_order reserving the unit before it checks the balance
create_order_user_reserve_first(p) ==
    /\ pc[p] = "co_user"
    /\ merch' = decrement_merch_quantity(merch, loc[p].merch_id).merch
    /\ UNCHANGED <<users, stands, points_transactions, merch_transactions, candidate_notes>>
    /\ IF ~get_user(users, loc[p].user) \/ users[loc[p].user].points < loc[p].amount
       THEN Return(p, "cannot_pay", FALSE)
       ELSE Goto(p, "co_insert", loc[p])

\* lines 63-65: get_user, balance check against points_cost
create_order_user(p) ==
    /\ pc[p] = "co_user"
    /\ UNCHANGED db
    /\ IF ~get_user(users, loc[p].user) \/ users[loc[p].user].points < loc[p].amount
       THEN Return(p, "cannot_pay", FALSE)
       ELSE Goto(p, "co_dec", loc[p])

\* lines 68-69: decrement_merch_quantity
create_order_decrement(p) ==
    /\ pc[p] = "co_dec"
    /\ LET r == decrement_merch_quantity(merch, loc[p].merch_id) IN
       /\ merch' = r.merch
       /\ UNCHANGED <<users, stands, points_transactions, merch_transactions, candidate_notes>>
       /\ IF r.ok THEN Goto(p, "co_insert", loc[p]) ELSE Return(p, "reserve_failed", FALSE)

\* lines 72-80: create_merch_transaction, return True
create_order_insert(p) ==
    /\ pc[p] = "co_insert"
    /\ merch_transactions' = create_merch_transaction(merch_transactions,
           [user_id |-> loc[p].user, merch_id |-> loc[p].merch_id,
            points_spent |-> loc[p].amount, status |-> "pending"])
    /\ UNCHANGED <<users, stands, merch, points_transactions, candidate_notes>>
    /\ Return(p, "ok", TRUE)

\* -------------------------------------------------- MerchManager.complete_order
call_complete_order(p, transaction_id) ==
    Begin(p, "cm_status", [IdleLoc EXCEPT !.op = "complete_order", !.id = transaction_id])

\* complete_order putting a unit back on the shelf as well
complete_order_status_restock(p) ==
    /\ pc[p] = "cm_status"
    /\ LET r == update_merch_transaction_status(merch_transactions, loc[p].id, "completed") IN
       /\ merch_transactions' = r.orders
       /\ merch' = IF r.ok /\ get_merch(merch, merch_transactions[loc[p].id].merch_id)
                   THEN [merch EXCEPT ![merch_transactions[loc[p].id].merch_id].quantity_left = @ + 1]
                   ELSE merch
       /\ UNCHANGED <<users, stands, points_transactions, candidate_notes>>
       /\ Return(p, IF r.ok THEN "ok" ELSE "failed", r.ok)

\* line 84: return update_merch_transaction_status(transaction_id, 'completed')
complete_order_status(p) ==
    /\ pc[p] = "cm_status"
    /\ LET r == update_merch_transaction_status(merch_transactions, loc[p].id, "completed") IN
       /\ merch_transactions' = r.orders
       /\ UNCHANGED <<users, stands, merch, points_transactions, candidate_notes>>
       /\ Return(p, IF r.ok THEN "ok" ELSE "failed", r.ok)

\* ---------------------------------------------------- MerchManager.cancel_order
call_cancel_order(p, transaction_id) ==
    Begin(p, "cn_find", [IdleLoc EXCEPT !.op = "cancel_order", !.id = transaction_id])

\* cancel_order accepting an order whatever its status
cancel_order_find_any_status(p) ==
    /\ pc[p] = "cn_find"
    /\ UNCHANGED db
    /\ IF loc[p].id \notin DOMAIN merch_transactions
       THEN Return(p, "failed", FALSE)
       ELSE Goto(p, "cn_release", [loc[p] EXCEPT !.merch_id = merch_transactions[loc[p].id].merch_id])

\* lines 89-94: find the order, it must be pending
cancel_order_find(p) ==
    /\ pc[p] = "cn_find"
    /\ UNCHANGED db
    /\ IF loc[p].id \notin DOMAIN merch_transactions
          \/ merch_transactions[loc[p].id].status # "pending"
       THEN Return(p, "failed", FALSE)
       ELSE Goto(p, "cn_release", [loc[p] EXCEPT !.merch_id = merch_transactions[loc[p].id].merch_id])

\* cancel_order releasing the unit of every item in the catalog
cancel_order_release_all(p) ==
    /\ pc[p] = "cn_release"
    /\ merch' = [m \in DOMAIN merch |-> [merch[m] EXCEPT !.quantity_left = @ + 1]]
    /\ UNCHANGED <<users, stands, points_transactions, merch_transactions, candidate_notes>>
    /\ Goto(p, "cn_status", loc[p])

\* lines 95-98: merch.update_one with $inc quantity_left 1
cancel_order_release(p) ==
    /\ pc[p] = "cn_release"
    /\ merch' = IF get_merch(merch, loc[p].merch_id)
                THEN [merch EXCEPT ![loc[p].merch_id].quantity_left = @ + 1]
                ELSE merch
    /\ UNCHANGED <<users, stands, points_transactions, merch_transactions, candidate_notes>>
    /\ Goto(p, "cn_status", loc[p])

\* line 101: return update_merch_transaction_status(transaction_id, 'cancelled')
cancel_order_status(p) ==
    /\ pc[p] = "cn_status"
    /\ LET r == update_merch_transaction_status(merch_transactions, loc[p].id, "cancelled") IN
       /\ merch_transactions' = r.orders
       /\ UNCHANGED <<users, stands, merch, points_transactions, candidate_notes>>
       /\ Return(p, IF r.ok THEN "ok" ELSE "failed", r.ok)

\* ------------------------------------------------------------ initial state
\* Two users have registered (registration_consent: points 0, then the
\* registration bonus through add_points); an admin has made user 2 a
\* standist and given it stand 1; merch 1 is in the catalog.
InitUsers ==
    [u \in UserIds |->
        [present |-> u \in {1, 2},
         points |-> IF u \in {1, 2} THEN RegistrationBonus ELSE 0,
         role |-> IF u = 2 THEN "standist" ELSE "guest",
         is_blocked |-> FALSE,
         is_candidate |-> FALSE]]

InitLog ==
    <<[user_id |-> 1, amount |-> RegistrationBonus, type |-> "earn",
       reason |-> "registration", reference_id |-> <<"reg", 1>>, status |-> "active"],
      [user_id |-> 2, amount |-> RegistrationBonus, type |-> "earn",
       reason |-> "registration", reference_id |-> <<"reg", 2>>, status |-> "active"]>>

Init ==
    /\ users = InitUsers
    /\ stands = [s \in StandIds |-> [owner_id |-> 2, visits |-> 0,
                                     points_reward |-> DefaultPointsReward]]
    /\ merch = [m \in MerchIds |-> [present |-> m = 1, points_cost |-> 10,
                                    quantity_total |-> IF m = 1 THEN 1 ELSE 0,
                                    quantity_left |-> IF m = 1 THEN 1 ELSE 0]]
    /\ points_transactions = InitLog
    /\ merch_transactions = << >>
    /\ candidate_notes = << >>
    /\ pc = [p \in Procs |-> "idle"]
    /\ loc = [p \in Procs |-> IdleLoc]
    /\ ret = [p \in Procs |-> NoRet]
    /\ pre = [p \in Procs |-> NoSnapshot]
    /\ calls = 0

\* ------------------------------------------------------------ next state
Call(p) ==
    \/ \E u \in Visitors, a \in Amounts : call_add_points(p, u, a)
    \/ \E u \in Visitors, a \in Amounts : call_subtract_points(p, u, a)
    \/ \E u \in Visitors, a \in Amounts : call_subtract_points_from_user(p, u, a)
    \/ \E t \in 1..(MaxTx + 1) : call_cancel_transaction(p, t)
    \/ \E a \in UserIds, qr \in QRs : call_handle_photo(p, a, qr)
    \/ \E u \in Visitors, m \in MerchIds : call_create_order(p, u, m)
    \/ \E t \in OrderIds : call_complete_order(p, t)
    \/ \E t \in OrderIds : call_cancel_order(p, t)
    \/ \E u \in Visitors, s \in AnyStandIds : call_check_stand_visit(p, u, s)

Step(p) ==
    \/ add_points_update(p)
    \/ add_points_log(p)
    \/ check_stand_visit_count(p)
    \/ subtract_points_read(p)
    \/ subtract_points_update(p)
    \/ subtract_points_log(p)
    \/ subtract_points_from_user_read(p)
    \/ subtract_points_from_user_update(p)
    \/ subtract_points_from_user_log(p)
    \/ cancel_transaction_get(p)
    \/ cancel_transaction_user(p)
    \/ cancel_transaction_update(p)
    \/ cancel_transaction_log(p)
    \/ cancel_transaction_status(p)
    \/ mark_as_candidate_get(p)
    \/ mark_as_candidate_flag(p)
    \/ mark_as_candidate_find(p)
    \/ mark_as_candidate_insert(p)
    \/ handle_photo_actor(p)
    \/ handle_photo_info(p)
    \/ handle_photo_scanned(p)
    \/ handle_photo_stand(p)
    \/ handle_photo_check(p)
    \/ handle_photo_added(p)
    \/ create_order_merch(p)
    \/ create_order_user(p)
    \/ create_order_decrement(p)
    \/ create_order_insert(p)
    \/ complete_order_status(p)
    \/ cancel_order_find(p)
    \/ cancel_order_release(p)
    \/ cancel_order_status(p)

\* calls run one after the other
Next == \E p \in Procs : Step(p) \/ (AllIdle /\ p = "w1" /\ Call(p))
Spec == Init /\ [][Next]_vars

\* calls of the two workers interleave
ConcNext == \E p \in Procs : Step(p) \/ (calls < MaxCalls /\ Call(p))
ConcSpec == Init /\ [][ConcNext]_vars

\* ------------------------------------------------ the order calls
\* create_order, complete_order and cancel_order of the two workers interleave
\* freely; the log of orders is the only thing that bounds the run
OrderCall(p) ==
    \/ \E u \in Visitors, m \in MerchIds : call_create_order(p, u, m)
    \/ \E t \in OrderIds : call_complete_order(p, t)
    \/ \E t \in OrderIds : call_cancel_order(p, t)

OrderStep(p) ==
    \/ create_order_merch(p)
    \/ create_order_user(p)
    \/ create_order_decrement(p)
    \/ create_order_insert(p)
    \/ complete_order_status(p)
    \/ cancel_order_find(p)
    \/ cancel_order_release(p)
    \/ cancel_order_status(p)

OrderNext == \E p \in Procs : OrderStep(p) \/ OrderCall(p)
OrderSpec == Init /\ [][OrderNext]_vars

\* ------------------------------------------------ the candidate calls
\* the same store after an admin has given users 1 and 2 any roles
\* (update_user_role) and may have blocked user 2 (block_user); stand 1 stays
\* with user 2
CandInit ==
    /\ \E r1 \in {"guest", "hr", "standist"}, r2 \in Roles, b2 \in BOOLEAN :
          users = [InitUsers EXCEPT ![1].role = r1, ![2].role = r2, ![2].is_blocked = b2]
    /\ stands = [s \in StandIds |-> [owner_id |-> 2, visits |-> 0,
                                     points_reward |-> DefaultPointsReward]]
    /\ merch = [m \in MerchIds |-> [present |-> m = 1, points_cost |-> 10,
                                    quantity_total |-> IF m = 1 THEN 1 ELSE 0,
                                    quantity_left |-> IF m = 1 THEN 1 ELSE 0]]
    /\ points_transactions = InitLog
    /\ merch_transactions = << >>
    /\ candidate_notes = << >>
    /\ pc = [p \in Procs |-> "idle"]
    /\ loc = [p \in Procs |-> IdleLoc]
    /\ ret = [p \in Procs |-> NoRet]
    /\ pre = [p \in Procs |-> NoSnapshot]
    /\ calls = 0

CandCall(p) ==
    \/ \E a \in UserIds, qr \in QRs : call_handle_photo(p, a, qr)
    \/ \E u \in UserIds, h \in Markers : call_mark_as_candidate(p, u, h)
    \/ \E u \in UserIds, h \in Markers : call_unmark_as_candidate(p, u, h)
    \/ \E u \in UserIds, h \in Markers : call_add_note(p, u, h)

CandStep(p) ==
    \/ add_points_update(p)
    \/ add_points_log(p)
    \/ mark_as_candidate_get(p)
    \/ mark_as_candidate_flag(p)
    \/ mark_as_candidate_find(p)
    \/ mark_as_candidate_insert(p)
    \/ unmark_as_candidate_get(p)
    \/ unmark_as_candidate_delete(p)
    \/ unmark_as_candidate_find(p)
    \/ unmark_as_candidate_flag(p)
    \/ add_note_get(p)
    \/ add_note_insert(p)
    \/ handle_photo_actor(p)
    \/ handle_photo_info(p)
    \/ handle_photo_scanned(p)
    \/ handle_photo_stand(p)
    \/ handle_photo_check(p)
    \/ handle_photo_added(p)

\* candidate calls and scans run one after the other
CandNext == \E p \in Procs : CandStep(p) \/ (AllIdle /\ p = "w1" /\ CandCall(p))
CandSpec == CandInit /\ [][CandNext]_vars

\* the candidate calls of the two workers interleave
MarkCall(p) ==
    \/ \E u \in UserIds, h \in Markers : call_mark_as_candidate(p, u, h)
    \/ \E u \in UserIds, h \in Markers : call_unmark_as_candidate(p, u, h)
    \/ \E u \in UserIds, h \in Markers : call_add_note(p, u, h)

MarkStep(p) ==
    \/ mark_as_candidate_get(p)
    \/ mark_as_candidate_flag(p)
    \/ mark_as_candidate_find(p)
    \/ mark_as_candidate_insert(p)
    \/ unmark_as_candidate_get(p)
    \/ unmark_as_candidate_delete(p)
    \/ unmark_as_candidate_find(p)
    \/ unmark_as_candidate_flag(p)
    \/ add_note_get(p)
    \/ add_note_insert(p)

MarkConcNext == \E p \in Procs : MarkStep(p) \/ (calls < MaxCalls /\ MarkCall(p))
MarkConcSpec == Init /\ [][MarkConcNext]_vars

\* ------------------------------------------------------------ vocabulary
\* worker p returns from a call of op in this step
Returns(p, op) == pc[p] # "idle" /\ pc'[p] = "idle" /\ ret'[p].op = op

\* the collections after the step are those of the snapshot
SameAsAfter(snap) ==
    /\ users' = snap.users
    /\ stands' = snap.stands
    /\ merch' = snap.merch
    /\ points_transactions' = snap.points_transactions
    /\ merch_transactions' = snap.merch_transactions
    /\ candidate_notes' = snap.candidate_notes

RECURSIVE SumAmounts(_)
SumAmounts(s) == IF s = << >> THEN 0 ELSE Head(s).amount + SumAmounts(Tail(s))

\* a user's amounts of one type, all of them or only those not cancelled
AmountsOf(user_id, type) ==
    SumAmounts(SelectSeq(points_transactions,
                         LAMBDA t : t.user_id = user_id /\ t.type = type))
ActiveAmountsOf(user_id, type) ==
    SumAmounts(SelectSeq(points_transactions,
                         LAMBDA t : t.user_id = user_id /\ t.type = type
                                    /\ t.status # "cancelled"))

StandVisits(user_id, stand_id) ==
    {i \in DOMAIN points_transactions :
        /\ points_transactions[i].user_id = user_id
        /\ points_transactions[i].type = "earn"
        /\ points_transactions[i].reason = "stand_visit"
        /\ points_transactions[i].reference_id = <<"stand", stand_id>>}

OrdersOf(merch_id) ==
    {i \in DOMAIN merch_transactions : merch_transactions[i].merch_id = merch_id}
OpenOrdersOf(merch_id) ==
    {i \in OrdersOf(merch_id) : merch_transactions[i].status # "cancelled"}

\* ------------------------------------------------------------------ C1
\* C1: under any interleaving of debiting calls on the same user, no user's
\* points balance is ever negative.  (ConcSpec)
C1_BalanceNeverNegative == \A u \in UserIds : users[u].points >= 0

\* ------------------------------------------------------------------ C2
\* C2: when two standist devices process a scan of the same visitor at the
\* same stand concurrently, there is at most one stand_visit earn transaction
\* per (user, stand) pair.  (ConcSpec)
C2_OneVisitPerPair ==
    \A u \in UserIds, s \in StandIds : Cardinality(StandVisits(u, s)) <= 1

\* ------------------------------------------------------------------ C3
\* C3: run one after the other, stand-visit credits for the same (user, stand)
\* pair credit once: a scan that finds the pair already credited reports
\* already_visited and leaves the log, the stand counters and the balances as
\* they were before the call, and the log never holds two stand_visit earns
\* for one pair.  (Spec)
C3_VisitIdempotence ==
    /\ [](\A u \in UserIds, s \in StandIds : Cardinality(StandVisits(u, s)) <= 1)
    /\ [][\A p \in Procs :
            (/\ pc[p] = "hp_check"
             /\ pc'[p] # "hp_check"
             /\ StandVisits(loc[p].user, loc[p].id) # {})
            => (/\ ret'[p].out = "already_visited"
                /\ points_transactions' = pre[p].points_transactions
                /\ stands' = pre[p].stands
                /\ users' = pre[p].users)]_vars

\* the second scan of visitor 1 at stand 1 has returned already_visited
C3_Witness ==
    /\ ret["w1"].op = "handle_photo"
    /\ ret["w1"].out = "already_visited"
    /\ Cardinality(StandVisits(1, 1)) = 1
    /\ stands[1].visits = 1
    /\ users[1].points = RegistrationBonus + DefaultPointsReward

\* ------------------------------------------------------------------ C4
\* C4 as stated: after completed calls every user's balance equals the sum of
\* its earn amounts that are not cancelled minus the sum of its spend amounts
\* that are not cancelled.  (Spec)
C4_BalanceEqualsActiveLog ==
    AllIdle => \A u \in UserIds :
        get_user(users, u) =>
            users[u].points = ActiveAmountsOf(u, "earn") - ActiveAmountsOf(u, "spend")

\* C4 as amended: after completed calls every user's balance equals the sum
\* of all its earn amounts minus the sum of all its spend amounts, whatever
\* their status.  (Spec)
C4_BalanceEqualsLog ==
    AllIdle => \A u \in UserIds :
        get_user(users, u) =>
            users[u].points = AmountsOf(u, "earn") - AmountsOf(u, "spend")

\* a cancel_transaction has reversed an earn of user 1
C4_Witness ==
    /\ AllIdle
    /\ ret["w1"].op = "cancel_transaction"
    /\ ret["w1"].ok
    /\ ret["w1"].user = 1
    /\ \E i \in DOMAIN points_transactions :
          /\ points_transactions[i].status = "cancelled"
          /\ points_transactions[i].type = "earn"

\* ------------------------------------------------------------------ C5
\* C5: whenever create_order returns true the item's quantity_left is one
\* lower than before the call, a pending order exists, and a spend transaction
\* (reason merch_order, reference the merch id, amount points_cost) exists with
\* the user's balance lower by points_cost.  (Spec)
C5_OrderIsCharged ==
    [][\A p \in Procs :
        (Returns(p, "create_order") /\ ret'[p].ok) =>
            LET u == loc[p].user
                m == loc[p].merch_id
                cost == pre[p].merch[m].points_cost IN
            /\ merch'[m].quantity_left = pre[p].merch[m].quantity_left - 1
            /\ \E i \in DOMAIN merch_transactions' :
                  /\ merch_transactions'[i].user_id = u
                  /\ merch_transactions'[i].merch_id = m
                  /\ merch_transactions'[i].status = "pending"
            /\ \E i \in DOMAIN points_transactions' :
                  /\ points_transactions'[i].user_id = u
                  /\ points_transactions'[i].type = "spend"
                  /\ points_transactions'[i].reason = "merch_order"
                  /\ points_transactions'[i].reference_id = <<"merch", m>>
                  /\ points_transactions'[i].amount = cost
            /\ users'[u].points = pre[p].users[u].points - cost]_vars

\* ------------------------------------------------------------------ C6
\* C6: whenever create_order returns false, no step of the call has changed
\* quantity_left, a balance, the points log or the orders: the call leaves
\* no unit reserved and no order recorded.  (ConcSpec, so that the failed
\* reservation of a race is among the cases)
C6_FailedOrderWritesNothing ==
    [][\A p \in Procs :
        (Returns(p, "create_order") /\ ~ret'[p].ok) =>
            /\ ~ret'[p].wrote
            /\ db' = db]_vars

\* two orders raced for the last unit: one was recorded, the other failed at
\* the reservation
C6_Witness ==
    \E p, q \in Procs :
        /\ ret[p].op = "create_order" /\ ret[p].ok
        /\ ret[q].op = "create_order" /\ ret[q].out = "reserve_failed"
        /\ merch[1].quantity_left = 0
        /\ Len(merch_transactions) = 1

\* ------------------------------------------------------------------ C7
\* the workers whose last call was a create_order of the item that returned true
Winners(merch_id) ==
    {p \in Procs : ret[p].op = "create_order" /\ ret[p].ok /\ ret[p].id = merch_id}

\* C7: under any interleaving of create_order calls quantity_left is never
\* below 0; and when each worker has made one create_order call and nothing
\* else has run, the calls that returned true are no more than the units the
\* item had, each holding an order and a unit of its own: one unit gives at
\* most one true.  (ConcSpec)
C7_NoOversell ==
    \A m \in MerchIds :
        /\ merch[m].quantity_left >= 0
        /\ ((/\ calls = Cardinality(Procs)
             /\ \A p \in Procs : ret[p].op = "create_order")
            => /\ Cardinality(Winners(m)) <= merch[m].quantity_total
               /\ Cardinality(OrdersOf(m)) = Cardinality(Winners(m))
               /\ merch[m].quantity_total - merch[m].quantity_left = Cardinality(Winners(m)))

\* both workers asked for merch 1 while one unit was left; one of them got it
C7_Witness ==
    /\ calls = Cardinality(Procs)
    /\ \E p, q \in Procs :
        /\ ret[p].op = "create_order" /\ ret[p].ok /\ ret[p].id = 1
        /\ ret[q].op = "create_order" /\ ~ret[q].ok /\ ret[q].id = 1
        /\ ret[q].out = "reserve_failed"
        /\ merch[1].quantity_total = 1
        /\ merch[1].quantity_left = 0
        /\ Cardinality(OrdersOf(1)) = 1

\* ------------------------------------------------------------------ C8
\* C8: after completed create_order, cancel_order and complete_order calls,
\* quantity_total - quantity_left of every item equals the number of its
\* orders that are not cancelled.  (Spec)
C8_StockMatchesOrders ==
    AllIdle => \A m \in MerchIds :
        get_merch(merch, m) =>
            merch[m].quantity_total - merch[m].quantity_left = Cardinality(OpenOrdersOf(m))

\* ------------------------------------------------------------------ C9
\* the compensating transaction of a cancel_transaction is the one new entry
\* of the log, and the original is the one entry whose status changed
Compensated(snap, id, type) ==
    LET t == snap.points_transactions[id]
        n == Len(snap.points_transactions) IN
    /\ Len(points_transactions') = n + 1
    /\ points_transactions'[n + 1] =
          [user_id |-> t.user_id, amount |-> t.amount, type |-> type,
           reason |-> "cancel_" \o t.reason, reference_id |-> <<"tx", id>>,
           status |-> "active"]
    /\ points_transactions'[id] = [t EXCEPT !.status = "cancelled"]
    /\ \A i \in 1..n : i # id => points_transactions'[i] = snap.points_transactions[i]

\* C9: cancel_transaction on an active earn of amount A with balance >= A
\* lowers the balance by A and appends a spend of A with reason
\* cancel_<reason> referencing the original; with balance < A it returns
\* false and changes nothing; on a spend it raises the balance by A and
\* appends an earn; when it succeeds the original is marked cancelled.  (Spec)
C9_ReversalCorrect ==
    [][\A p \in Procs :
        (Returns(p, "cancel_transaction")
         /\ loc[p].id \in DOMAIN pre[p].points_transactions) =>
            LET t == pre[p].points_transactions[loc[p].id]
                bal == pre[p].users[t.user_id].points IN
            /\ (t.type = "earn" /\ t.status = "active" /\ bal >= t.amount) =>
                  /\ ret'[p].ok
                  /\ users' = [pre[p].users EXCEPT ![t.user_id].points = bal - t.amount]
                  /\ Compensated(pre[p], loc[p].id, "spend")
            /\ (t.type = "earn" /\ bal < t.amount) =>
                  /\ ~ret'[p].ok
                  /\ SameAsAfter(pre[p])
            /\ (t.type = "spend") =>
                  /\ ret'[p].ok
                  /\ users' = [pre[p].users EXCEPT ![t.user_id].points = bal + t.amount]
                  /\ Compensated(pre[p], loc[p].id, "earn")]_vars

\* the registration earn of user 1 has been reversed
C9_Witness ==
    /\ ret["w1"].op = "cancel_transaction"
    /\ ret["w1"].ok
    /\ points_transactions[1].status = "cancelled"
    /\ users[1].points = 0
    /\ points_transactions[Len(points_transactions)].reason = "cancel_registration"
    /\ points_transactions[Len(points_transactions)].type = "spend"

\* ------------------------------------------------------------------ C10
\* the earn transaction an add_points call of worker p must have logged
EarnOf(p) ==
    [user_id |-> ret[p].user, amount |-> ret[p].amount, type |-> "earn",
     reason |-> "other", reference_id |-> NoRef, status |-> "active"]

\* C10: when each worker has made one add_points call and both returned true,
\* whatever the interleaving, every balance is the initial balance plus the
\* amounts added to it and the log holds one earn transaction per call; while
\* both calls stand between their increment and their log entry, both
\* increments are in the balance.  (ConcSpec)
C10_NoLostUpdate ==
    /\ (/\ calls = Cardinality(Procs)
        /\ \A p \in Procs : ret[p].op = "add_points" /\ ret[p].ok)
       => /\ \A u \in UserIds :
                users[u].points = InitUsers[u].points
                    + (IF ret["w1"].user = u THEN ret["w1"].amount ELSE 0)
                    + (IF ret["w2"].user = u THEN ret["w2"].amount ELSE 0)
          /\ Len(points_transactions) = Len(InitLog) + 2
          /\ SubSeq(points_transactions, 1, Len(InitLog)) = InitLog
          /\ LET a == points_transactions[Len(InitLog) + 1]
                 b == points_transactions[Len(InitLog) + 2] IN
             \/ a = EarnOf("w1") /\ b = EarnOf("w2")
             \/ a = EarnOf("w2") /\ b = EarnOf("w1")
    /\ (/\ calls = Cardinality(Procs)
        /\ \A p \in Procs : pc[p] = "ap_log" /\ loc[p].op = "add_points")
       => \A u \in UserIds :
                users[u].points = InitUsers[u].points
                    + (IF loc["w1"].user = u THEN loc["w1"].amount ELSE 0)
                    + (IF loc["w2"].user = u THEN loc["w2"].amount ELSE 0)

\* both workers have added points to user 1 and returned true
C10_Witness ==
    /\ calls = Cardinality(Procs)
    /\ \A p \in Procs : ret[p].op = "add_points" /\ ret[p].ok /\ ret[p].user = 1
    /\ users[1].points = RegistrationBonus + ret["w1"].amount + ret["w2"].amount
    /\ Len(points_transactions) = Len(InitLog) + 2

\* ------------------------------------------------------------------ C11
\* C11: a cancel_order that returns true on a pending order refunds the
\* order's points_spent: the balance of the order's user is higher by
\* points_spent than before the call and the log has a new earn transaction
\* of that amount for that user referencing the order.  (Spec)
C11_CancelRefunds ==
    [][\A p \in Procs :
        (/\ Returns(p, "cancel_order")
         /\ ret'[p].ok
         /\ loc[p].id \in DOMAIN pre[p].merch_transactions
         /\ pre[p].merch_transactions[loc[p].id].status = "pending") =>
            LET o == pre[p].merch_transactions[loc[p].id] IN
            /\ users'[o.user_id].points = pre[p].users[o.user_id].points + o.points_spent
            /\ \E i \in DOMAIN points_transactions' \ DOMAIN pre[p].points_transactions :
                  /\ points_transactions'[i].user_id = o.user_id
                  /\ points_transactions'[i].type = "earn"
                  /\ points_transactions'[i].amount = o.points_spent
                  /\ points_transactions'[i].reference_id = <<"order", loc[p].id>>]_vars

\* ------------------------------------------------------------------ C12
\* C12: a cancel_order that returns true on a pending order raises the
\* quantity_left of the order's item by exactly 1 and sets the order's status
\* to cancelled; every other item and every other order is as it was before
\* the call.  (Spec)
C12_CancelReleasesOneUnit ==
    [][\A p \in Procs :
        (/\ Returns(p, "cancel_order")
         /\ ret'[p].ok
         /\ loc[p].id \in DOMAIN pre[p].merch_transactions
         /\ pre[p].merch_transactions[loc[p].id].status = "pending") =>
            LET o == pre[p].merch_transactions[loc[p].id] IN
            /\ merch' = [pre[p].merch EXCEPT ![o.merch_id].quantity_left = @ + 1]
            /\ merch_transactions' =
                  [pre[p].merch_transactions EXCEPT ![loc[p].id].status = "cancelled"]]_vars

\* the second order has been cancelled while the first, completed, stands
C12_Witness ==
    /\ ret["w1"].op = "cancel_order"
    /\ ret["w1"].ok
    /\ ret["w1"].id = 2
    /\ Len(merch_transactions) = 2
    /\ merch_transactions[1].status = "completed"
    /\ merch_transactions[2].status = "cancelled"
    /\ merch[1].quantity_left = 1
    /\ merch[2].quantity_left = 0

\* ------------------------------------------------------------------ C13
\* C13: cancel_order on an order that does not exist or is not pending
\* (completed or cancelled) returns false and leaves the stock, the orders
\* and the balances, as every other collection, as they were before the
\* call.  (Spec)
C13_CancelRejected ==
    [][\A p \in Procs :
        (/\ Returns(p, "cancel_order")
         /\ \/ loc[p].id \notin DOMAIN pre[p].merch_transactions
            \/ pre[p].merch_transactions[loc[p].id].status # "pending") =>
            /\ ~ret'[p].ok
            /\ ~ret'[p].wrote
            /\ SameAsAfter(pre[p])]_vars

\* a cancel_order of a completed order has returned false
C13_Witness ==
    /\ ret["w1"].op = "cancel_order"
    /\ ~ret["w1"].ok
    /\ ret["w1"].id \in DOMAIN merch_transactions
    /\ merch_transactions[ret["w1"].id].status = "completed"
    /\ merch[1].quantity_left = 0

\* ------------------------------------------------------------------ C14
\* C14: completed and cancelled are terminal: no step changes the status of
\* an order that is completed or cancelled, so a cancelled order never
\* becomes completed.  (Spec)
C14_TerminalStatus ==
    [][\A i \in DOMAIN merch_transactions :
        merch_transactions[i].status \in {"completed", "cancelled"}
            => /\ i \in DOMAIN merch_transactions'
               /\ merch_transactions'[i].status = merch_transactions[i].status]_vars

\* ------------------------------------------------------------------ C15
\* C15: complete_order changes the status of the named order and nothing
\* else: balances, the points log, every quantity_left, the stands, the
\* candidate records and every other order are after the call as before
\* it.  (Spec)
C15_CompleteTouchesOnlyStatus ==
    [][\A p \in Procs :
        Returns(p, "complete_order") =>
            /\ users' = pre[p].users
            /\ points_transactions' = pre[p].points_transactions
            /\ merch' = pre[p].merch
            /\ stands' = pre[p].stands
            /\ candidate_notes' = pre[p].candidate_notes
            /\ DOMAIN merch_transactions' = DOMAIN pre[p].merch_transactions
            /\ \A i \in DOMAIN merch_transactions' :
                  merch_transactions'[i] =
                      IF i = loc[p].id
                      THEN [pre[p].merch_transactions[i] EXCEPT !.status = "completed"]
                      ELSE pre[p].merch_transactions[i]]_vars

\* the one order has been completed, its unit still taken
C15_Witness ==
    /\ ret["w1"].op = "complete_order"
    /\ ret["w1"].ok
    /\ merch_transactions[ret["w1"].id].status = "completed"
    /\ merch[1].quantity_left = 0
    /\ users[1].points = RegistrationBonus

\* ------------------------------------------------------------------ C16
\* the mark records (is_marked true) of one marker for one candidate
MarksOf(candidate_id, hr_id) ==
    {i \in DOMAIN candidate_notes : /\ candidate_notes[i].candidate_id = candidate_id
                                    /\ candidate_notes[i].hr_id = hr_id
                                    /\ candidate_notes[i].is_marked}

\* C16: after completed mark_as_candidate, unmark_as_candidate and add_note
\* calls (and scans) there is at most one mark record per (candidate, marker)
\* pair, and a mark_as_candidate that returned true, the first by that marker
\* or a repeated one, leaves the candidate flagged with exactly one mark
\* record of that marker.  (CandSpec)
C16_OneMarkPerMarker ==
    AllIdle =>
        /\ \A c \in UserIds, h \in UserIds : Cardinality(MarksOf(c, h)) <= 1
        /\ \A p \in Procs :
              (ret[p].op = "mark_as_candidate" /\ ret[p].ok) =>
                  /\ users[ret[p].user].is_candidate
                  /\ Cardinality(MarksOf(ret[p].user, ret[p].actor)) = 1

\* a marker has marked user 1 a second time: the call returned true and
\* wrote nothing
C16_Witness ==
    /\ AllIdle
    /\ ret["w1"].op = "mark_as_candidate"
    /\ ret["w1"].ok
    /\ ~ret["w1"].wrote
    /\ ret["w1"].user = 1
    /\ users[1].is_candidate
    /\ Cardinality(MarksOf(1, ret["w1"].actor)) = 1

\* ------------------------------------------------------------------ C17
\* C17: after completed mark_as_candidate, unmark_as_candidate and add_note
\* calls (and scans) a user's is_candidate flag is true if and only if a
\* mark record (is_marked true) exists for that user.  (CandSpec)
C17_FlagIffMarked ==
    AllIdle => \A u \in UserIds :
        get_user(users, u) =>
            (users[u].is_candidate <=> find_any_mark(candidate_notes, u))

\* one of two markers has taken its mark of user 1 back; the other's mark
\* remains and user 1 is still flagged
C17_Witness ==
    /\ AllIdle
    /\ ret["w1"].op = "unmark_as_candidate"
    /\ ret["w1"].ok
    /\ ret["w1"].wrote
    /\ ret["w1"].user = 1
    /\ MarksOf(1, ret["w1"].actor) = {}
    /\ find_any_mark(candidate_notes, 1)
    /\ users[1].is_candidate

\* ------------------------------------------------------------------ C18
\* the actor is registered, not blocked and a standist
MayAccrue(actor) ==
    /\ get_user(users, actor)
    /\ ~users[actor].is_blocked
    /\ users[actor].role = "standist"

\* C18: no step of a scan whose actor is unregistered, blocked or not a
\* standist (guest, hr, admin) changes a balance or the points log; a step
\* that appends a stand_visit transaction or changes a balance belongs to a
\* scan whose actor is registered, not blocked and a standist.  (CandSpec)
C18_OnlyStandistAccrues ==
    [][/\ \A p \in Procs :
            (loc[p].op = "handle_photo" /\ ~MayAccrue(loc[p].actor)) =>
                /\ \A u \in UserIds : users'[u].points = users[u].points
                /\ points_transactions' = points_transactions
       /\ (\/ points_transactions' # points_transactions
           \/ \E u \in UserIds : users'[u].points # users[u].points) =>
                \E p \in Procs : /\ pc[p] # "idle"
                                 /\ loc[p].op = "handle_photo"
                                 /\ MayAccrue(loc[p].actor)]_vars

\* a blocked standist who owns stand 1 has scanned visitor 1: nothing accrued
C18_Witness ==
    /\ ret["w1"].op = "handle_photo"
    /\ ret["w1"].out = "blocked"
    /\ ret["w1"].user = 1
    /\ users[ret["w1"].actor].role = "standist"
    /\ users[ret["w1"].actor].is_blocked
    /\ get_stand_by_owner(stands, ret["w1"].actor) = 1
    /\ StandVisits(1, 1) = {}
    /\ users[1].points = RegistrationBonus

\* ------------------------------------------------------------------ C19
\* C19: no step of a scan whose actor is not an hr (guest, standist, admin)
\* creates a mark record or changes a user's is_candidate flag.  (CandSpec)
C19_OnlyHrMarks ==
    [][\A p \in Procs :
        (loc[p].op = "handle_photo" /\ users[loc[p].actor].role # "hr") =>
            /\ candidate_notes' = candidate_notes
            /\ \A u \in UserIds : users'[u].is_candidate = users[u].is_candidate]_vars

\* ------------------------------------------------------------------ C20
\* C20: when add_points hands back true, the amount is positive, the user's
\* balance is higher by exactly the amount than before the call and the one
\* new entry of the log is an earn transaction with the call's user, amount,
\* reason and reference id; when it hands back false, as it does when the
\* user does not exist, balances and log are as before the call.  (Spec)
C20_AddPointsExact ==
    [][\A p \in Procs :
        (pc[p] \in {"ap_update", "ap_log"} /\ pc'[p] \notin {"ap_update", "ap_log"}) =>
            LET u == loc[p].user
                a == loc[p].amount
                ok == IF loc[p].op = "add_points" THEN ret'[p].ok ELSE loc'[p].ok IN
            /\ ok => /\ a > 0
                     /\ users' = [pre[p].users EXCEPT ![u].points = @ + a]
                     /\ points_transactions' =
                           Append(pre[p].points_transactions,
                                  [user_id |-> u, amount |-> a, type |-> "earn",
                                   reason |-> loc[p].reason, reference_id |-> loc[p].ref,
                                   status |-> "active"])
            /\ ~ok => /\ users' = pre[p].users
                      /\ points_transactions' = pre[p].points_transactions
            /\ ~get_user(pre[p].users, u) => ~ok]_vars

\* add_points(1, 5, ...) has returned true
C20_Witness ==
    /\ ret["w1"].op = "add_points"
    /\ ret["w1"].ok
    /\ ret["w1"].user = 1
    /\ ret["w1"].amount = 5
    /\ users[1].points = RegistrationBonus + 5
    /\ points_transactions[Len(points_transactions)] =
          [user_id |-> 1, amount |-> 5, type |-> "earn", reason |-> "other",
           reference_id |-> NoRef, status |-> "active"]

\* ------------------------------------------------------------------ C21
\* C21: subtract_points with a positive amount returns false with balances
\* and log as before the call when the user does not exist or holds less
\* than the amount; otherwise it returns true, the balance is lower by
\* exactly the amount and the one new entry of the log is a spend
\* transaction of that amount.  (Spec)
C21_SubtractExact ==
    [][\A p \in Procs :
        (Returns(p, "subtract_points") /\ loc[p].amount > 0) =>
            LET u == loc[p].user
                a == loc[p].amount IN
            IF ~get_user(pre[p].users, u) \/ pre[p].users[u].points < a
            THEN /\ ~ret'[p].ok
                 /\ SameAsAfter(pre[p])
            ELSE /\ ret'[p].ok
                 /\ users' = [pre[p].users EXCEPT ![u].points = @ - a]
                 /\ points_transactions' =
                       Append(pre[p].points_transactions,
                              [user_id |-> u, amount |-> a, type |-> "spend",
                               reason |-> loc[p].reason, reference_id |-> loc[p].ref,
                               status |-> "active"])]_vars

\* user 1, left with 5 points, has been refused a debit of 10
C21_Witness ==
    /\ ret["w1"].op = "subtract_points"
    /\ ~ret["w1"].ok
    /\ ret["w1"].user = 1
    /\ ret["w1"].amount = 10
    /\ users[1].points = 5
    /\ points_transactions[Len(points_transactions)].type = "spend"
    /\ points_transactions[Len(points_transactions)].amount = 5

\* ------------------------------------------------------------------ C22
\* C22: add_points and subtract_points with an amount of 0 or less return
\* false at their first statement, before any store call: no step of the
\* call wrote, and every collection is as before the call.  (Spec)
C22_NonPositiveRejected ==
    [][\A p \in Procs :
        (/\ Returns(p, "add_points") \/ Returns(p, "subtract_points")
         /\ loc[p].amount <= 0) =>
            /\ ~ret'[p].ok
            /\ pc[p] \in {"ap_update", "sp_read"}
            /\ ~ret'[p].wrote
            /\ SameAsAfter(pre[p])]_vars

\* subtract_points(1, 0, ...) has returned false
C22_Witness ==
    /\ ret["w1"].op = "subtract_points"
    /\ ret["w1"].amount <= 0
    /\ ~ret["w1"].ok
    /\ ~ret["w1"].wrote
    /\ ret["w1"].user = 1
    /\ users[1].points = RegistrationBonus

\* ------------------------------------------------------------------ C23
\* the log holds a transaction of the user with reason stand_visit whose
\* reference id is the stand
HasVisitEntry(log, user_id, stand_id) ==
    \E i \in DOMAIN log : /\ log[i].user_id = user_id
                          /\ log[i].reason = "stand_visit"
                          /\ log[i].reference_id[1] = "stand"
                          /\ log[i].reference_id[2] = stand_id

\* C23: check_stand_visit(user, stand) returns true exactly when the log
\* holds at least one transaction with that user id, reason stand_visit and
\* that stand as reference id, whatever its status; the scan's dedup check
\* takes the already_visited exit in exactly those cases.  (Spec)
C23_CheckMatchesLog ==
    [][\A p \in Procs :
        /\ Returns(p, "check_stand_visit") =>
              (ret'[p].ok <=> HasVisitEntry(points_transactions, loc[p].user, loc[p].id))
        /\ (pc[p] = "hp_check" /\ pc'[p] # "hp_check") =>
              ((pc'[p] = "idle" /\ ret'[p].out = "already_visited")
                  <=> HasVisitEntry(points_transactions, loc[p].user, loc[p].id))]_vars

\* check_stand_visit(1, 1) has returned true with the one visit cancelled
C23_Witness ==
    /\ ret["w1"].op = "check_stand_visit"
    /\ ret["w1"].ok
    /\ ret["w1"].user = 1
    /\ ret["w1"].id = 1
    /\ \E i \in DOMAIN points_transactions :
          /\ points_transactions[i].reason = "stand_visit"
          /\ points_transactions[i].status = "cancelled"

\* ------------------------------------------------------------------ C30
\* what worker p has put into the balance of the user and not yet into the
\* log: p stands between its balance update and its log entry
PendingOf(p, user_id) ==
    IF loc[p].user # user_id THEN 0
    ELSE IF pc[p] = "ap_log" THEN loc[p].amount
    ELSE IF pc[p] \in {"sp_log", "as_log"} THEN -loc[p].amount
    ELSE IF pc[p] = "ct_log"
         THEN (IF loc[p].ttype = "earn" THEN -loc[p].amount ELSE loc[p].amount)
    ELSE 0

RECURSIVE PendingSum(_, _)
PendingSum(ps, user_id) ==
    IF ps = {} THEN 0
    ELSE LET p == CHOOSE q \in ps : TRUE IN
         PendingOf(p, user_id) + PendingSum(ps \ {p}, user_id)

\* C30: the balance is adjusted before the transaction is appended, and
\* nothing repairs the gap: in every state, whatever the other worker has
\* done meanwhile, each balance differs from the earns minus the spends of
\* the log by exactly the amounts of the calls that stand between their
\* balance update and their log entry.  (ConcSpec)
C30_BalanceLeadsLog ==
    \A u \in UserIds :
        users[u].points - (AmountsOf(u, "earn") - AmountsOf(u, "spend"))
            = PendingSum(Procs, u)

\* add_points(1, 5) of w1 stands between the two steps; w2 has completed a
\* subtract_points(1, 10): the balance is 5, the log says 0
C30_Witness ==
    /\ pc["w1"] = "ap_log"
    /\ loc["w1"].op = "add_points"
    /\ loc["w1"].user = 1
    /\ loc["w1"].amount = 5
    /\ ret["w2"].op = "subtract_points"
    /\ ret["w2"].ok
    /\ ret["w2"].user = 1
    /\ users[1].points = 5
    /\ AmountsOf(1, "earn") - AmountsOf(1, "spend") = 0

\* ------------------------------------------------------------------ C24
\* C24: a transaction is reversed at most once: a cancel_transaction of a
\* transaction that is already cancelled leaves every balance and the log
\* as they were before the call.  (Spec)
C24_ReversedOnce ==
    [][\A p \in Procs :
        (/\ Returns(p, "cancel_transaction")
         /\ loc[p].id \in DOMAIN pre[p].points_transactions
         /\ pre[p].points_transactions[loc[p].id].status = "cancelled") =>
            /\ users' = pre[p].users
            /\ points_transactions' = pre[p].points_transactions]_vars

C26_StockWithinTotal ==
    \A m \in MerchIds :
        /\ 0 <= merch[m].quantity_left
        /\ merch[m].quantity_left <= merch[m].quantity_total

\* ------------------------------------------------------------------ C29
\* C29: a scan of a user code by a registered, unblocked standist ends
\* visitor_not_found when the decoded id matches no registered user, and
\* stand_not_found when the visitor exists and the standist owns no stand;
\* either way no step of the scan wrote: balances, the points log, the stand
\* counters and the candidate marks are as before the call.  (CandSpec)
C29_NotFoundChangesNothing ==
    [][\A p \in Procs :
        (/\ Returns(p, "handle_photo")
         /\ loc[p].qr = "user"
         /\ get_user(pre[p].users, loc[p].actor)
         /\ ~pre[p].users[loc[p].actor].is_blocked
         /\ pre[p].users[loc[p].actor].role = "standist"
         /\ \/ ~get_user(pre[p].users, loc[p].user)
            \/ get_stand_by_owner(pre[p].stands, loc[p].actor) = 0) =>
            /\ ret'[p].out = IF ~get_user(pre[p].users, loc[p].user)
                             THEN "visitor_not_found" ELSE "stand_not_found"
            /\ ~ret'[p].ok
            /\ ~ret'[p].wrote
            /\ SameAsAfter(pre[p])]_vars

\* standist 1, who owns no stand, has scanned the code of a registered user
C29_Witness ==
    /\ ret["w1"].op = "handle_photo"
    /\ ret["w1"].out = "stand_not_found"
    /\ ret["w1"].actor = 1
    /\ users[1].role = "standist"
    /\ get_stand_by_owner(stands, 1) = 0
    /\ get_user(users, ret["w1"].user)

\* ------------------------------------------------------------------ C27
\* the stand_visit earn of the user at the stand has been cancelled
VisitCancelled(log, user_id, stand_id) ==
    \E i \in DOMAIN log : /\ log[i].user_id = user_id
                          /\ log[i].type = "earn"
                          /\ log[i].reason = "stand_visit"
                          /\ log[i].reference_id = <<"stand", stand_id>>
                          /\ log[i].status = "cancelled"

\* C27: once the stand_visit earn of (user, stand) has been cancelled,
\* check_stand_visit(user, stand) still returns true, and a scan of that user
\* at that stand returns already_visited with every collection as before the
\* call.  (Spec)
C27_CancelledVisitStillCounts ==
    [][\A p \in Procs :
        /\ (/\ Returns(p, "check_stand_visit")
            /\ VisitCancelled(points_transactions, loc[p].user, loc[p].id))
              => ret'[p].ok
        /\ (/\ pc[p] = "hp_check"
            /\ pc'[p] # "hp_check"
            /\ VisitCancelled(points_transactions, loc[p].user, loc[p].id))
              => /\ pc'[p] = "idle"
                 /\ ret'[p].out = "already_visited"
                 /\ SameAsAfter(pre[p])]_vars

\* visitor 1 was credited at stand 1, the credit was cancelled, and the next
\* scan of visitor 1 at stand 1 has returned already_visited
C27_Witness ==
    /\ ret["w1"].op = "handle_photo"
    /\ ret["w1"].out = "already_visited"
    /\ ret["w1"].user = 1
    /\ VisitCancelled(points_transactions, 1, 1)
    /\ users[1].points = RegistrationBonus
    /\ Cardinality(StandVisits(1, 1)) = 1

\* ------------------------------------------------------------------ C28
\* C28: after completed calls each stand's visits counter equals the number
\* of stand_visit earn transactions whose reference id is that stand: one
\* increment per accrual, none for a scan that ends already_visited,
\* visitor_not_found or with a failed accrual.  (Spec)
C28_VisitsMatchLog ==
    AllIdle => \A s \in StandIds :
        stands[s].visits =
            Cardinality({i \in DOMAIN points_transactions :
                            /\ points_transactions[i].type = "earn"
                            /\ points_transactions[i].reason = "stand_visit"
                            /\ points_transactions[i].reference_id = <<"stand", s>>})

\* after the credit of visitor 1, a scan of an unregistered visitor has ended
\* visitor_not_found: the counter of stand 1 is 1
C28_Witness ==
    /\ AllIdle
    /\ ret["w1"].op = "handle_photo"
    /\ ret["w1"].out = "visitor_not_found"
    /\ stands[1].visits = 1
    /\ Cardinality(StandVisits(1, 1)) = 1

\* ------------------------------------------------------------------ C31
\* C31: every transaction of the points log, the compensating ones of
\* cancel_transaction included, has an amount above 0 and the type earn or
\* spend; a compensating transaction carries the amount of the original and
\* the other type.  (Spec)
C31_PositiveAmounts ==
    \A i \in DOMAIN points_transactions :
        LET t == points_transactions[i] IN
        /\ t.amount > 0
        /\ t.type \in {"earn", "spend"}
        /\ (t.reference_id[1] = "tx" /\ t.reference_id[2] \in DOMAIN points_transactions) =>
              /\ t.amount = points_transactions[t.reference_id[2]].amount
              /\ t.type # points_transactions[t.reference_id[2]].type

\* a spend of 5 by user 1 has been cancelled: the compensating entry is an
\* earn of 5
C31_Witness ==
    /\ ret["w1"].op = "cancel_transaction"
    /\ ret["w1"].ok
    /\ points_transactions[ret["w1"].id].type = "spend"
    /\ points_transactions[ret["w1"].id].amount = 5
    /\ points_transactions[Len(points_transactions)].type = "earn"
    /\ points_transactions[Len(points_transactions)].amount = 5
    /\ points_transactions[Len(points_transactions)].reference_id = <<"tx", ret["w1"].id>>

\* ------------------------------------------------------------------ C32
\* the one change a stored transaction may undergo
SameOrCancelled(old, new) ==
    \/ new = old
    \/ new = [old EXCEPT !.status = "cancelled"]

\* C32: the points log is append-only: no step of any operation removes a
\* transaction, moves one, or changes a field of a stored one other than
\* setting its status to cancelled.  (ConcSpec)
C32_LogAppendOnly ==
    [][/\ Len(points_transactions') >= Len(points_transactions)
       /\ \A i \in DOMAIN points_transactions :
             SameOrCancelled(points_transactions[i], points_transactions'[i])]_vars

\* both workers have completed a call that appended to the log, one of them
\* a cancel_transaction that set the status of the registration earn
C32_Witness ==
    /\ AllIdle
    /\ ret["w1"].op = "cancel_transaction"
    /\ ret["w1"].ok
    /\ ret["w2"].op = "add_points"
    /\ ret["w2"].ok
    /\ points_transactions[1].status = "cancelled"
    /\ Len(points_transactions) = Len(InitLog) + 2

\* ------------------------------------------------------------------ C33
\* the record is the mark of the marker on the candidate
IsMarkOf(n, candidate_id, hr_id) ==
    n.candidate_id = candidate_id /\ n.hr_id = hr_id /\ n.is_marked

\* C33: an unmark_as_candidate(candidate, marker) on a registered candidate
\* returns true and takes away that marker's mark on that candidate and no
\* other record; the flag of the candidate becomes false when no mark on the
\* candidate is left and is untouched otherwise, and no other user's flag
\* changes.  (CandSpec)
C33_UnmarkOnlyOwnMark ==
    [][\A p \in Procs :
        (Returns(p, "unmark_as_candidate") /\ get_user(pre[p].users, loc[p].user)) =>
            LET c == loc[p].user
                h == loc[p].actor IN
            /\ ret'[p].ok
            /\ candidate_notes' =
                  SelectSeq(pre[p].candidate_notes, LAMBDA n : ~IsMarkOf(n, c, h))
            /\ users' = [pre[p].users EXCEPT ![c].is_candidate =
                            IF \E i \in DOMAIN candidate_notes' :
                                  /\ candidate_notes'[i].candidate_id = c
                                  /\ candidate_notes'[i].is_marked
                            THEN @ ELSE FALSE]]_vars

\* marker 1 has taken its mark of user 1 back while user 2 is marked as well:
\* the mark on user 2 is still there, user 2 is still flagged, user 1 is not
C33_Witness ==
    /\ ret["w1"].op = "unmark_as_candidate"
    /\ ret["w1"].ok
    /\ ret["w1"].wrote
    /\ ret["w1"].user = 1
    /\ ret["w1"].actor = 1
    /\ ~users[1].is_candidate
    /\ users[2].is_candidate
    /\ find_any_mark(candidate_notes, 2)
    /\ ~find_any_mark(candidate_notes, 1)

\* ------------------------------------------------------------------ C34
\* the note and the mark an add_note(candidate, marker) stores
NoteOf(candidate_id, hr_id) ==
    [candidate_id |-> candidate_id, hr_id |-> hr_id, is_marked |-> FALSE, text |-> TRUE]
MarkOf(candidate_id, hr_id) ==
    [candidate_id |-> candidate_id, hr_id |-> hr_id, is_marked |-> TRUE, text |-> FALSE]

\* C34: an add_note on a registered candidate returns true and stores the
\* note; afterwards the candidate is flagged and a mark on them exists.  When
\* the candidate was flagged before the call the note is the only record
\* added and no flag changes; when not, the mark of the author follows the
\* note.  (CandSpec)
C34_AddNoteEnsuresMark ==
    [][\A p \in Procs :
        (Returns(p, "add_note") /\ get_user(pre[p].users, loc[p].user)) =>
            LET c == loc[p].user
                h == loc[p].actor IN
            /\ ret'[p].ok
            /\ users'[c].is_candidate
            /\ find_any_mark(candidate_notes', c)
            /\ users' = [pre[p].users EXCEPT ![c].is_candidate = TRUE]
            /\ candidate_notes' =
                  IF pre[p].users[c].is_candidate
                  THEN Append(pre[p].candidate_notes, NoteOf(c, h))
                  ELSE pre[p].candidate_notes \o <<NoteOf(c, h), MarkOf(c, h)>>]_vars

\* a note about user 1, who was already flagged: the log of records is the
\* mark that was there and the note, by another author
C34_Witness ==
    /\ ret["w1"].op = "add_note"
    /\ ret["w1"].ok
    /\ ret["w1"].user = 1
    /\ users[1].is_candidate
    /\ Len(candidate_notes) = 2
    /\ candidate_notes[1].is_marked
    /\ candidate_notes[1].hr_id # ret["w1"].actor
    /\ candidate_notes[2] = NoteOf(1, ret["w1"].actor)

\* ------------------------------------------------------------------ C35
\* the notes (records carrying text) of a collection, in order
NotesIn(notes) == SelectSeq(notes, LAMBDA n : n.text)

\* C35: no step of an unmark_as_candidate deletes or changes a note: the
\* notes of the collection are the same before and after every step of the
\* call, whoever the marker is.  (CandSpec)
C35_UnmarkKeepsNotes ==
    [][\A p \in Procs :
        (loc[p].op = "unmark_as_candidate" /\ pc'[p] # pc[p]) =>
            NotesIn(candidate_notes') = NotesIn(candidate_notes)]_vars

\* the author of a note about user 1 has taken the mark back that came with
\* the note: the note is what is left
C35_Witness ==
    /\ ret["w1"].op = "unmark_as_candidate"
    /\ ret["w1"].ok
    /\ ret["w1"].wrote
    /\ ret["w1"].user = 1
    /\ candidate_notes = <<NoteOf(1, ret["w1"].actor)>>
    /\ ~users[1].is_candidate

\* ------------------------------------------------------------------ C36
\* C36: mark_as_candidate, unmark_as_candidate and add_note for a user id
\* that is not registered return false, and no step of the call wrote: marks,
\* notes and flags are as before the call.  (CandSpec)
C36_UnknownUserRejected ==
    [][\A p \in Procs :
        (/\ \/ Returns(p, "mark_as_candidate")
            \/ Returns(p, "unmark_as_candidate")
            \/ Returns(p, "add_note")
         /\ ~get_user(pre[p].users, loc[p].user)) =>
            /\ ~ret'[p].ok
            /\ ~ret'[p].wrote
            /\ SameAsAfter(pre[p])]_vars

\* unmark_as_candidate of the unregistered user 3 has returned false while a
\* mark on user 1 is in the collection
C36_Witness ==
    /\ ret["w1"].op = "unmark_as_candidate"
    /\ ~ret["w1"].ok
    /\ ret["w1"].user = 3
    /\ ~get_user(users, 3)
    /\ Len(candidate_notes) = 1
    /\ find_any_mark(candidate_notes, 1)

\* ------------------------------------------------------------------ C37
\* C37: when the two workers have each made one mark_as_candidate call by
\* the same marker for the same candidate and both have returned true,
\* whatever the interleaving, at most one mark record of that marker for
\* that candidate exists.  (MarkConcSpec)
C37_ConcurrentMarksOneRecord ==
    (/\ AllIdle
     /\ calls = Cardinality(Procs)
     /\ \A p \in Procs : ret[p].op = "mark_as_candidate" /\ ret[p].ok
     /\ ret["w1"].user = ret["w2"].user
     /\ ret["w1"].actor = ret["w2"].actor) =>
        Cardinality(MarksOf(ret["w1"].user, ret["w1"].actor)) <= 1

\* ------------------------------------------------------------------ C38
\* C38: when a mark_as_candidate by one marker and an unmark_as_candidate by
\* another marker on the same candidate have interleaved and both have
\* returned, the candidate's flag is true if and only if a mark record for
\* the candidate exists.  (MarkConcSpec)
C38_FlagIffMarkedAfterRace ==
    \A p \in Procs, q \in Procs :
        (/\ AllIdle
         /\ calls = Cardinality(Procs)
         /\ ret[p].op = "mark_as_candidate" /\ ret[p].ok
         /\ ret[q].op = "unmark_as_candidate" /\ ret[q].ok
         /\ ret[p].user = ret[q].user
         /\ ret[p].actor # ret[q].actor) =>
            (users[ret[p].user].is_candidate
                <=> find_any_mark(candidate_notes, ret[p].user))
====
